---- MODULE Spec2Model ----
(***************************************************************************)
(* Model of cloudfront-policy-signer (src/lib.rs): the canned-policy       *)
(* builder, the key loader, the RSA-SHA1 signer, the URL-safe encoder and  *)
(* the orchestrating create_canned_policy_signature.                       *)
(*                                                                         *)
(* Byte strings that hold text (the policy, the encoded signature, log     *)
(* messages) are TLA+ strings; raw signature bytes are sequences of        *)
(* integers 0..255.                                                        *)
(***************************************************************************)
EXTENDS Integers, Sequences, FiniteSets, TLC

VARIABLES
    pc,                    \* position of the call in progress
    resource,              \* argument `resource`
    expiry,                \* argument `expiry`
    private_key_location,  \* argument `private_key_location`
    key,                   \* bytes returned by read_rsa_private_key
    private_key,           \* Rsa<Private>, then PKey<Private>
    policy,                \* bytes returned by generate_canned_policy
    signer,                \* openssl Signer context
    signed_policy,         \* raw signature bytes
    result,                \* the Result the call returns
    log,                   \* error-level records written during the call
    trace,                 \* stages the call has executed, in order
    earlier                \* an earlier completed call, kept for comparison

vars == <<pc, resource, expiry, private_key_location, key, private_key,
          policy, signer, signed_policy, result, log, trace, earlier>>

\* A variable holds None until its value exists, then Some(value).
None == <<>>

Some(v) == <<v>>

Val(o) == o[1]

(***************************************************************************)
(* Bounds of the model.                                                    *)
(***************************************************************************)
MaxResourceLen == 2
MaxSignatureLen == 4

(***************************************************************************)
(* Strings.                                                                *)
(***************************************************************************)
CharAt(s, i) == SubSeq(s, i, i)

DropChars(s, n) == SubSeq(s, n + 1, Len(s))

\* Display for u64: the decimal digits, most significant first, no padding.
RECURSIVE u64_to_string(_)
u64_to_string(n) ==
    IF n < 10 THEN CharAt("0123456789", n + 1)
    ELSE u64_to_string(n \div 10) \o CharAt("0123456789", (n % 10) + 1)

\* Position of the first brace of the template, 0 when it has none.
FirstBrace(fmt) ==
    LET braces == {i \in 1..Len(fmt) : CharAt(fmt, i) \in {"{", "}"}}
    IN  IF braces = {} THEN 0
        ELSE CHOOSE i \in braces : \A j \in braces : i <= j

\* format!: the template is read left to right; literal text up to the next
\* brace is copied, "{{" and "}}" are escaped braces, "{}" takes the next
\* positional argument (already rendered with Display).
RECURSIVE format(_, _)
format(fmt, args) ==
    LET b == FirstBrace(fmt)
        piece == SubSeq(fmt, b, b + 1)
        rest == DropChars(fmt, b + 1)
    IN  IF b = 0 THEN fmt
        ELSE SubSeq(fmt, 1, b - 1) \o
             (CASE piece = "{{" -> "{" \o format(rest, args)
                [] piece = "}}" -> "}" \o format(rest, args)
                [] piece = "{}" -> Head(args) \o format(rest, Tail(args)))

\* The template literal of generate_canned_policy.
PolicyTemplate ==
    "{{\"Statement\":[{{\"Resource\":\"{}}}\",\"Condition\":{{\"DateLessThan\":{{\"AWS:EpochTime\":{}}}}}]}}"

\* The template with the statement object closed a third time.
PolicyTemplateThreeBraces ==
    "{{\"Statement\":[{{\"Resource\":\"{}}}\",\"Condition\":{{\"DateLessThan\":{{\"AWS:EpochTime\":{}}}}}}}]}}"

\* str::replace for a one-character pattern: every occurrence is replaced,
\* everything else is kept in place.
RECURSIVE replace(_, _, _)
replace(s, from, to) ==
    IF s = "" THEN ""
    ELSE IF Len(s) = 1 THEN (IF s = from THEN to ELSE s)
    ELSE LET half == Len(s) \div 2
         IN  replace(SubSeq(s, 1, half), from, to)
                 \o replace(DropChars(s, half), from, to)

\* A builder that JSON-escapes the quotes and backslashes of the resource.
generate_canned_policy_escaping(r, e) ==
    format(PolicyTemplate,
           <<replace(replace(r, "\\", "\\\\"), "\"", "\\\""), u64_to_string(e)>>)

\* A builder that closes the statement object after the expiry as well.
generate_canned_policy_three_braces(r, e) ==
    format(PolicyTemplateThreeBraces, <<r, u64_to_string(e)>>)

generate_canned_policy(r, e) ==
    format(PolicyTemplate, <<r, u64_to_string(e)>>)

(***************************************************************************)
(* openssl::base64::encode_block: standard alphabet, '=' padding, no line  *)
(* breaks.  Each group of three bytes is packed into a 24-bit value and    *)
(* read out as four 6-bit digits; a final group of one or two bytes is     *)
(* zero-filled and padded.                                                 *)
(***************************************************************************)
Base64Alphabet ==
    "ABCDEFGHIJKLMNOPQRSTUVWXYZabcdefghijklmnopqrstuvwxyz0123456789+/"

conv_bin2ascii(v) == CharAt(Base64Alphabet, (v % 64) + 1)

RECURSIVE encode_block(_)
encode_block(bytes) ==
    IF Len(bytes) = 0 THEN ""
    ELSE IF Len(bytes) >= 3 THEN
        LET l == bytes[1] * 65536 + bytes[2] * 256 + bytes[3]
        IN  conv_bin2ascii(l \div 262144) \o conv_bin2ascii(l \div 4096)
                \o conv_bin2ascii(l \div 64) \o conv_bin2ascii(l)
                \o encode_block(SubSeq(bytes, 4, Len(bytes)))
    ELSE
        LET l == bytes[1] * 65536
                   + (IF Len(bytes) = 2 THEN bytes[2] * 256 ELSE 0)
        IN  conv_bin2ascii(l \div 262144) \o conv_bin2ascii(l \div 4096)
                \o (IF Len(bytes) = 1 THEN "=" ELSE conv_bin2ascii(l \div 64))
                \o "="

\* An encoder that leaves the padding character in place.
encode_signature_keeps_padding(bytes) ==
    replace(replace(encode_block(bytes), "+", "-"), "/", "~")

\* An encoder that maps '/' to '-' (the RFC 4648 URL-safe pair mixed up),
\* so that '+' and '/' both become '-'.
encode_signature_merges_slash(bytes) ==
    replace(replace(replace(encode_block(bytes), "+", "-"), "=", "_"), "/", "-")

encode_signature_url_safe(bytes) ==
    replace(replace(replace(encode_block(bytes), "+", "-"), "=", "_"), "/", "~")

(***************************************************************************)
(* Values of the crate: Result<_, Error> and the records written with      *)
(* log::error!.                                                            *)
(***************************************************************************)
Ok(v) == [ok |-> TRUE, value |-> v]

Err(e) == [ok |-> FALSE, error |-> e]

\* enum Error: only IOError has a payload.
IOError(cause) == [kind |-> "IOError", cause |-> cause]

PrivateKeyParseError == [kind |-> "PrivateKeyParseError"]

PrivateKeyConvertError == [kind |-> "PrivateKeyConvertError"]

CouldNotSign == [kind |-> "CouldNotSign"]

Unknown == [kind |-> "Unknown"]

\* error!(fmt, e): one record at error level, the cause rendered into fmt.
error(fmt, e) == [level |-> "error", message |-> format(fmt, <<e>>)]

(***************************************************************************)
(* The collaborators: the file system and OpenSSL.                         *)
(*                                                                         *)
(* fs::read either fails with a std::io::Error or returns the bytes of the *)
(* file.  OpenSSL is deterministic: what each of its calls does with a key *)
(* is fixed by the key's bytes, so the bytes of a key file are modelled by *)
(* the verdict of each call on them, plus a number that tells files apart. *)
(***************************************************************************)
IoCauses == {"No such file or directory (os error 2)",
             "Permission denied (os error 13)"}

KeyFiles ==
    [parses : BOOLEAN, converts : BOOLEAN, signer_inits : BOOLEAN,
     updates : BOOLEAN, signs : BOOLEAN, id : {251}]
    \cup
    [parses : {TRUE}, converts : {TRUE}, signer_inits : {TRUE},
     updates : {TRUE}, signs : {TRUE}, id : {255}]

\* The ErrorStack OpenSSL reports from each call.
ErrorStack(call) == "ErrorStack(" \o call \o ")"

\* Code of a printable ASCII character: 32..95, then 97..126.
AsciiLow ==
    " !\"#$%&'()*+,-./0123456789:;<=>?@ABCDEFGHIJKLMNOPQRSTUVWXYZ[\\]^_"

AsciiHigh == "abcdefghijklmnopqrstuvwxyz{|}~"

Ord(c) ==
    IF \E i \in 1..Len(AsciiLow) : CharAt(AsciiLow, i) = c
        THEN 31 + (CHOOSE i \in 1..Len(AsciiLow) : CharAt(AsciiLow, i) = c)
        ELSE 96 + (CHOOSE i \in 1..Len(AsciiHigh) : CharAt(AsciiHigh, i) = c)

\* Stand-in for the SHA-1 digest: a position-weighted checksum of the data.
RECURSIVE Digest(_, _, _)
Digest(data, from, to) ==
    IF from > to THEN 0
    ELSE IF from = to THEN (from * Ord(CharAt(data, from))) % 65536
    ELSE LET mid == (from + to) \div 2
         IN  (Digest(data, from, mid) + Digest(data, mid + 1, to)) % 65536

\* Stand-in for the PKCS#1 v1.5 RSA signature of the digest: raw bytes fixed
\* by the data fed to the signer and by the key, nothing else.
sign_to_vec(s) ==
    LET d == Digest(s.data, 1, Len(s.data))
    IN  <<d \div 256, d % 256, (d * s.pkey.material.id) % 256,
          s.pkey.material.id>>

\* A signature with a random salt, as a PSS padding would give.
sign_to_vec_salted(s, salt) ==
    LET d == Digest(s.data, 1, Len(s.data))
    IN  <<d \div 256, d % 256, (d * s.pkey.material.id) % 256, salt>>

(***************************************************************************)
(* create_canned_policy_signature, one action per step of the call.        *)
(***************************************************************************)
\* The resource and the expiry of the documented example.
FlowerpotResource == "https://example.cloudfront.net/flowerpot.png"

FlowerpotExpiry == 1579532331

Resources == {FlowerpotResource, "a"}

Expiries == {FlowerpotExpiry, 0}

Locations == {"examples/key.pem", "missing.pem"}

\* The stages of a call, in the order the code reaches them.
StageOrder ==
    <<"read_rsa_private_key", "Rsa::private_key_from_pem", "PKey::from_rsa",
      "generate_canned_policy", "Signer::new", "Signer::update",
      "Signer::sign_to_vec", "encode_signature_url_safe">>

\* One entry of the trace: the stage and what its collaborator answered,
\* "ok" or the cause of the failure.
Ran(stage, answer) == [stage |-> stage, answer |-> answer]

Init ==
    /\ pc = "idle"
    /\ resource = None
    /\ expiry = None
    /\ private_key_location = None
    /\ key = None
    /\ private_key = None
    /\ policy = None
    /\ signer = None
    /\ signed_policy = None
    /\ result = None
    /\ log = <<>>
    /\ trace = <<>>
    /\ earlier = None

\* The caller invokes create_canned_policy_signature.
Call ==
    /\ pc = "idle"
    /\ \E r \in Resources, e \in Expiries, l \in Locations :
           /\ resource' = Some(r)
           /\ expiry' = Some(e)
           /\ private_key_location' = Some(l)
    /\ pc' = "read"
    /\ UNCHANGED <<key, private_key, policy, signer, signed_policy, result,
                   log, trace, earlier>>

\* read_rsa_private_key: fs::read succeeds.
ReadOk ==
    /\ pc = "read"
    /\ \E k \in KeyFiles : key' = Some(k)
    /\ trace' = Append(trace, Ran("read_rsa_private_key", "ok"))
    /\ pc' = "parse"
    /\ UNCHANGED <<resource, expiry, private_key_location, private_key,
                   policy, signer, signed_policy, result, log, earlier>>

\* A read failure that reports a fresh error in place of the one it got.
ReadErrDropsCause ==
    /\ pc = "read"
    /\ \E e \in IoCauses :
           /\ log' = Append(log,
                  error("Could not read private key from file due to {}", e))
           /\ result' = Some(Err(IOError("other error")))
           /\ trace' = Append(trace, Ran("read_rsa_private_key", e))
    /\ pc' = "done"
    /\ UNCHANGED <<resource, expiry, private_key_location, key, private_key,
                   policy, signer, signed_policy, earlier>>

\* read_rsa_private_key: fs::read fails.
ReadErr ==
    /\ pc = "read"
    /\ \E e \in IoCauses :
           /\ log' = Append(log,
                  error("Could not read private key from file due to {}", e))
           /\ result' = Some(Err(IOError(e)))
           /\ trace' = Append(trace, Ran("read_rsa_private_key", e))
    /\ pc' = "done"
    /\ UNCHANGED <<resource, expiry, private_key_location, key, private_key,
                   policy, signer, signed_policy, earlier>>

\* parse_rsa_private_key: Rsa::private_key_from_pem succeeds.
ParseOk ==
    /\ pc = "parse"
    /\ Val(key).parses
    /\ private_key' = Some([type |-> "Rsa<Private>", material |-> Val(key)])
    /\ trace' = Append(trace, Ran("Rsa::private_key_from_pem", "ok"))
    /\ pc' = "convert"
    /\ UNCHANGED <<resource, expiry, private_key_location, key, policy,
                   signer, signed_policy, result, log, earlier>>

\* A parse failure that is logged but not returned: the call goes on.
ParseErrGoesOn ==
    /\ pc = "parse"
    /\ ~Val(key).parses
    /\ log' = Append(log, error("Could not parse RSA private key due to {}",
                                ErrorStack("PEM_read_bio_RSAPrivateKey")))
    /\ private_key' = Some([type |-> "Rsa<Private>", material |-> Val(key)])
    /\ trace' = Append(trace, Ran("Rsa::private_key_from_pem",
                                  ErrorStack("PEM_read_bio_RSAPrivateKey")))
    /\ pc' = "convert"
    /\ UNCHANGED <<resource, expiry, private_key_location, key, policy,
                   signer, signed_policy, result, earlier>>

\* A parse failure that returns its error without logging it.
ParseErrSilent ==
    /\ pc = "parse"
    /\ ~Val(key).parses
    /\ result' = Some(Err(PrivateKeyParseError))
    /\ trace' = Append(trace, Ran("Rsa::private_key_from_pem",
                                  ErrorStack("PEM_read_bio_RSAPrivateKey")))
    /\ pc' = "done"
    /\ UNCHANGED <<resource, expiry, private_key_location, key, private_key,
                   policy, signer, signed_policy, log, earlier>>

\* parse_rsa_private_key: Rsa::private_key_from_pem fails.
ParseErr ==
    /\ pc = "parse"
    /\ ~Val(key).parses
    /\ log' = Append(log, error("Could not parse RSA private key due to {}",
                                ErrorStack("PEM_read_bio_RSAPrivateKey")))
    /\ result' = Some(Err(PrivateKeyParseError))
    /\ trace' = Append(trace, Ran("Rsa::private_key_from_pem",
                                  ErrorStack("PEM_read_bio_RSAPrivateKey")))
    /\ pc' = "done"
    /\ UNCHANGED <<resource, expiry, private_key_location, key, private_key,
                   policy, signer, signed_policy, earlier>>

\* parse_rsa_private_key: PKey::from_rsa succeeds.
ConvertOk ==
    /\ pc = "convert"
    /\ Val(private_key).material.converts
    /\ private_key' = Some([Val(private_key) EXCEPT !.type = "PKey<Private>"])
    /\ trace' = Append(trace, Ran("PKey::from_rsa", "ok"))
    /\ pc' = "policy"
    /\ UNCHANGED <<resource, expiry, private_key_location, key, policy,
                   signer, signed_policy, result, log, earlier>>

\* A conversion failure reported under the parse error's kind.
ConvertErrAsParseError ==
    /\ pc = "convert"
    /\ ~Val(private_key).material.converts
    /\ log' = Append(log, error("Could not convert RSA private key due to {}",
                                ErrorStack("EVP_PKEY_assign")))
    /\ result' = Some(Err(PrivateKeyParseError))
    /\ trace' = Append(trace, Ran("PKey::from_rsa", ErrorStack("EVP_PKEY_assign")))
    /\ pc' = "done"
    /\ UNCHANGED <<resource, expiry, private_key_location, key, private_key,
                   policy, signer, signed_policy, earlier>>

\* parse_rsa_private_key: PKey::from_rsa fails.
ConvertErr ==
    /\ pc = "convert"
    /\ ~Val(private_key).material.converts
    /\ log' = Append(log, error("Could not convert RSA private key due to {}",
                                ErrorStack("EVP_PKEY_assign")))
    /\ result' = Some(Err(PrivateKeyConvertError))
    /\ trace' = Append(trace, Ran("PKey::from_rsa", ErrorStack("EVP_PKEY_assign")))
    /\ pc' = "done"
    /\ UNCHANGED <<resource, expiry, private_key_location, key, private_key,
                   policy, signer, signed_policy, earlier>>

\* The argument of sign_canned_policy is evaluated: the policy is built.
GeneratePolicy ==
    /\ pc = "policy"
    /\ policy' = Some(generate_canned_policy(Val(resource), Val(expiry)))
    /\ trace' = Append(trace, Ran("generate_canned_policy", "ok"))
    /\ pc' = "signer_new"
    /\ UNCHANGED <<resource, expiry, private_key_location, key, private_key,
                   signer, signed_policy, result, log, earlier>>

\* sign_canned_policy: Signer::new succeeds.
SignerNewOk ==
    /\ pc = "signer_new"
    /\ Val(private_key).material.signer_inits
    /\ signer' = Some([digest |-> "sha1", pkey |-> Val(private_key), data |-> ""])
    /\ trace' = Append(trace, Ran("Signer::new", "ok"))
    /\ pc' = "signer_update"
    /\ UNCHANGED <<resource, expiry, private_key_location, key, private_key,
                   policy, signed_policy, result, log, earlier>>

\* sign_canned_policy: Signer::new fails.
SignerNewErr ==
    /\ pc = "signer_new"
    /\ ~Val(private_key).material.signer_inits
    /\ log' = Append(log, error("Could not create signer due to {}",
                                ErrorStack("EVP_DigestSignInit")))
    /\ result' = Some(Err(Unknown))
    /\ trace' = Append(trace, Ran("Signer::new", ErrorStack("EVP_DigestSignInit")))
    /\ pc' = "done"
    /\ UNCHANGED <<resource, expiry, private_key_location, key, private_key,
                   policy, signer, signed_policy, earlier>>

\* sign_canned_policy: signer.update succeeds.
SignerUpdateOk ==
    /\ pc = "signer_update"
    /\ Val(signer).pkey.material.updates
    /\ signer' = Some([Val(signer) EXCEPT !.data = @ \o Val(policy)])
    /\ trace' = Append(trace, Ran("Signer::update", "ok"))
    /\ pc' = "signer_sign"
    /\ UNCHANGED <<resource, expiry, private_key_location, key, private_key,
                   policy, signed_policy, result, log, earlier>>

\* sign_canned_policy: signer.update fails.
SignerUpdateErr ==
    /\ pc = "signer_update"
    /\ ~Val(signer).pkey.material.updates
    /\ log' = Append(log, error("Could not update signer due to {}",
                                ErrorStack("EVP_DigestUpdate")))
    /\ result' = Some(Err(Unknown))
    /\ trace' = Append(trace, Ran("Signer::update", ErrorStack("EVP_DigestUpdate")))
    /\ pc' = "done"
    /\ UNCHANGED <<resource, expiry, private_key_location, key, private_key,
                   policy, signer, signed_policy, earlier>>

\* A signing step whose padding draws a random salt.
SignOkSalted ==
    /\ pc = "signer_sign"
    /\ Val(signer).pkey.material.signs
    /\ \E salt \in {0, 1} : signed_policy' = Some(sign_to_vec_salted(Val(signer), salt))
    /\ trace' = Append(trace, Ran("Signer::sign_to_vec", "ok"))
    /\ pc' = "encode"
    /\ UNCHANGED <<resource, expiry, private_key_location, key, private_key,
                   policy, signer, result, log, earlier>>

\* sign_canned_policy: signer.sign_to_vec succeeds.
SignOk ==
    /\ pc = "signer_sign"
    /\ Val(signer).pkey.material.signs
    /\ signed_policy' = Some(sign_to_vec(Val(signer)))
    /\ trace' = Append(trace, Ran("Signer::sign_to_vec", "ok"))
    /\ pc' = "encode"
    /\ UNCHANGED <<resource, expiry, private_key_location, key, private_key,
                   policy, signer, result, log, earlier>>

\* A finalization failure reported under the blanket kind.
SignErrAsUnknown ==
    /\ pc = "signer_sign"
    /\ ~Val(signer).pkey.material.signs
    /\ log' = Append(log, error("Could not sign due to {}",
                                ErrorStack("EVP_DigestSignFinal")))
    /\ result' = Some(Err(Unknown))
    /\ trace' = Append(trace, Ran("Signer::sign_to_vec",
                                  ErrorStack("EVP_DigestSignFinal")))
    /\ pc' = "done"
    /\ UNCHANGED <<resource, expiry, private_key_location, key, private_key,
                   policy, signer, signed_policy, earlier>>

\* sign_canned_policy: signer.sign_to_vec fails.
SignErr ==
    /\ pc = "signer_sign"
    /\ ~Val(signer).pkey.material.signs
    /\ log' = Append(log, error("Could not sign due to {}",
                                ErrorStack("EVP_DigestSignFinal")))
    /\ result' = Some(Err(CouldNotSign))
    /\ trace' = Append(trace, Ran("Signer::sign_to_vec",
                                  ErrorStack("EVP_DigestSignFinal")))
    /\ pc' = "done"
    /\ UNCHANGED <<resource, expiry, private_key_location, key, private_key,
                   policy, signer, signed_policy, earlier>>

\* The innermost closure: Ok(encode_signature_url_safe(&signed_policy)).
Encode ==
    /\ pc = "encode"
    /\ result' = Some(Ok(encode_signature_url_safe(Val(signed_policy))))
    /\ trace' = Append(trace, Ran("encode_signature_url_safe", "ok"))
    /\ pc' = "done"
    /\ UNCHANGED <<resource, expiry, private_key_location, key, private_key,
                   policy, signer, signed_policy, log, earlier>>

\* What a completed call is remembered by: its arguments, what the read
\* stage returned and what the call returned.
CallRecord ==
    [resource |-> Val(resource), expiry |-> Val(expiry), key |-> key,
     result |-> Val(result)]

\* The call returns; every value it built is dropped.  The caller keeps the
\* outcome of this call or of an earlier one to compare later calls with.
Return ==
    /\ pc = "done"
    /\ \E keep \in BOOLEAN : earlier' = IF keep THEN Some(CallRecord) ELSE earlier
    /\ pc' = "idle"
    /\ resource' = None
    /\ expiry' = None
    /\ private_key_location' = None
    /\ key' = None
    /\ private_key' = None
    /\ policy' = None
    /\ signer' = None
    /\ signed_policy' = None
    /\ result' = None
    /\ log' = <<>>
    /\ trace' = <<>>

Next ==
    \/ Call
    \/ ReadOk
    \/ ReadErr
    \/ ParseOk
    \/ ParseErr
    \/ ConvertOk
    \/ ConvertErr
    \/ GeneratePolicy
    \/ SignerNewOk
    \/ SignerNewErr
    \/ SignerUpdateOk
    \/ SignerUpdateErr
    \/ SignOk
    \/ SignErr
    \/ Encode
    \/ Return

Spec == Init /\ [][Next]_vars

(***************************************************************************)
(* The policy builder on its own: generate_canned_policy applied to a      *)
(* resource and an expiry drawn from bounded sets.                         *)
(***************************************************************************)
\* Characters a resource is built from: a letter, a path separator and the
\* characters a JSON serializer would escape or that the template treats
\* specially.
ResourceAlphabet == {"a", "/", "\"", "\\", "{", "}"}

RECURSIVE StringsUpTo(_)
StringsUpTo(n) ==
    IF n = 0 THEN {""}
    ELSE LET shorter == StringsUpTo(n - 1)
         IN  shorter \cup {s \o c : s \in shorter, c \in ResourceAlphabet}

PolicyResources == StringsUpTo(MaxResourceLen) \cup {FlowerpotResource}

\* Expiry values: one digit, a carry into two digits, the documented
\* example, and the largest 32-bit signed value.
PolicyExpiries == {0, 9, 10, FlowerpotExpiry, 2147483647}

InitPolicy ==
    /\ pc = "policy_input"
    /\ resource \in {Some(r) : r \in PolicyResources}
    /\ expiry \in {Some(e) : e \in PolicyExpiries}
    /\ private_key_location = None
    /\ key = None
    /\ private_key = None
    /\ policy = None
    /\ signer = None
    /\ signed_policy = None
    /\ result = None
    /\ log = <<>>
    /\ trace = <<>>
    /\ earlier = None

BuildPolicy ==
    /\ pc = "policy_input"
    /\ policy' = Some(generate_canned_policy(Val(resource), Val(expiry)))
    /\ pc' = "policy_built"
    /\ UNCHANGED <<resource, expiry, private_key_location, key, private_key,
                   signer, signed_policy, result, log, trace, earlier>>

SpecPolicy == InitPolicy /\ [][BuildPolicy]_vars

(***************************************************************************)
(* The encoder on its own: encode_signature_url_safe applied to raw bytes  *)
(* drawn from a bounded set.                                               *)
(***************************************************************************)
\* Bytes whose 6-bit groups hit both ends of the alphabet, '+' and '/'.
SampleBytes == {0, 63, 251, 255}

SignatureSamples ==
    UNION {[1..n -> SampleBytes] : n \in 0..MaxSignatureLen}

InitEncode ==
    /\ pc = "encode_input"
    /\ signed_policy \in {Some(b) : b \in SignatureSamples}
    /\ resource = None
    /\ expiry = None
    /\ private_key_location = None
    /\ key = None
    /\ private_key = None
    /\ policy = None
    /\ signer = None
    /\ result = None
    /\ log = <<>>
    /\ trace = <<>>
    /\ earlier = None

EncodeSignature ==
    /\ pc = "encode_input"
    /\ result' = Some(encode_signature_url_safe(Val(signed_policy)))
    /\ pc' = "encoded"
    /\ UNCHANGED <<resource, expiry, private_key_location, key, private_key,
                   policy, signer, signed_policy, log, trace, earlier>>

SpecEncode == InitEncode /\ [][EncodeSignature]_vars

(***************************************************************************)
(* Properties of the policy builder.                                       *)
(***************************************************************************)
\* Number of occurrences of the character c in s.
CountChar(s, c) == Cardinality({i \in 1..Len(s) : CharAt(s, i) = c})

RECURSIVE Repeat(_, _)
Repeat(c, n) == IF n = 0 THEN "" ELSE c \o Repeat(c, n - 1)

\* The layout of the data model with n closing braces between the expiry
\* digits and the closing bracket.
DataModelLayout(r, e, n) ==
    "{\"Statement\":[{\"Resource\":\"" \o r
        \o "}\",\"Condition\":{\"DateLessThan\":{\"AWS:EpochTime\":"
        \o ToString(e) \o Repeat("}", n) \o "]}"

\* C1: the policy is the fixed prefix, the resource verbatim, the fixed
\* middle, the decimal digits of the expiry and "}}]}"; for the flowerpot
\* resource and expiry 1579532331 it is the literal of the testable
\* properties.
C1_PolicyByteExact ==
    pc = "policy_built" =>
        /\ Val(policy) =
               "{\"Statement\":[{\"Resource\":\"" \o Val(resource)
                   \o "}\",\"Condition\":{\"DateLessThan\":{\"AWS:EpochTime\":"
                   \o ToString(Val(expiry)) \o "}}]}"
        /\ (Val(resource) = FlowerpotResource /\ Val(expiry) = FlowerpotExpiry =>
               Val(policy) = "{\"Statement\":[{\"Resource\":\"https://example.cloudfront.net/flowerpot.png}\",\"Condition\":{\"DateLessThan\":{\"AWS:EpochTime\":1579532331}}]}")

C1_Witness ==
    /\ pc = "policy_built"
    /\ resource = Some(FlowerpotResource)
    /\ expiry = Some(FlowerpotExpiry)

\* C2 as stated: the policy is the data-model layout with three closing
\* braces between the expiry digits and the closing bracket.
C2_LayoutThreeBraces ==
    pc = "policy_built" =>
        Val(policy) = DataModelLayout(Val(resource), Val(expiry), 3)

\* C2 amended: the policy is the data-model layout with two closing braces
\* between the expiry digits and the closing bracket; with the brace that
\* follows the resource and the final one, the template closes as many
\* braces as it opens, four of each.
C2_LayoutTwoBraces ==
    pc = "policy_built" =>
        /\ Val(policy) = DataModelLayout(Val(resource), Val(expiry), 2)
        /\ CountChar(Val(policy), "}") = CountChar(Val(resource), "}") + 4
        /\ CountChar(Val(policy), "{") = CountChar(Val(resource), "{") + 4

C2_Witness ==
    /\ pc = "policy_built"
    /\ resource = Some("a")
    /\ expiry = Some(10)
    /\ DropChars(Val(policy), Len(Val(policy)) - 6) = "10}}]}"

(***************************************************************************)
(* Properties of the encoder.                                              *)
(***************************************************************************)
\* Bit k (0-based, most significant first) of the byte stream; 0 past its end.
BitOf(bytes, k) ==
    IF k \div 8 >= Len(bytes) THEN 0
    ELSE (bytes[(k \div 8) + 1] \div (2 ^ (7 - (k % 8)))) % 2

\* The 6-bit group j (0-based) of the byte stream.
Sextet(bytes, j) ==
    32 * BitOf(bytes, 6 * j) + 16 * BitOf(bytes, 6 * j + 1)
        + 8 * BitOf(bytes, 6 * j + 2) + 4 * BitOf(bytes, 6 * j + 3)
        + 2 * BitOf(bytes, 6 * j + 4) + BitOf(bytes, 6 * j + 5)

\* RFC 4648 base64 of the byte stream, character i (1-based): the alphabet
\* letter of each 6-bit group that holds input bits, '=' up to a multiple of 4.
StandardBase64Char(bytes, i) ==
    IF 6 * (i - 1) < 8 * Len(bytes)
        THEN CharAt(Base64Alphabet, Sextet(bytes, i - 1) + 1)
        ELSE "="

StandardBase64Len(bytes) == 4 * ((Len(bytes) + 2) \div 3)

UrlSafeChar(c) ==
    IF c = "+" THEN "-" ELSE IF c = "=" THEN "_" ELSE IF c = "/" THEN "~" ELSE c

\* C6: the encoded string holds no '+', '=' or '/'; character by character
\* it is the padded standard base64 of the input under the three
\* substitutions; the empty input gives the empty string; an input whose
\* length is not a multiple of 3 ends in one '_' per padding character.
C6_UrlSafeAlphabet ==
    pc = "encoded" =>
        LET bytes == Val(signed_policy)
            out == Val(result)
        IN  /\ CountChar(out, "+") = 0
            /\ CountChar(out, "=") = 0
            /\ CountChar(out, "/") = 0
            /\ Len(out) = StandardBase64Len(bytes)
            /\ \A i \in 1..Len(out) :
                   CharAt(out, i) = UrlSafeChar(StandardBase64Char(bytes, i))
            /\ (bytes = <<>> => out = "")
            /\ CountChar(out, "_") = (3 - (Len(bytes) % 3)) % 3
            /\ (Len(bytes) % 3 = 1 => DropChars(out, Len(out) - 2) = "__")
            /\ (Len(bytes) % 3 = 2 => DropChars(out, Len(out) - 1) = "_")

C6_Witness ==
    /\ pc = "encoded"
    /\ signed_policy = Some(<<251, 255, 255, 0>>)
    /\ result = Some("-~~~AA__")

\* Index of a character in the standard alphabet.
Base64Index(c) ==
    IF \E i \in 0..63 : CharAt(Base64Alphabet, i + 1) = c
        THEN CHOOSE i \in 0..63 : CharAt(Base64Alphabet, i + 1) = c
        ELSE 0

\* Standard base64 decoding of a padded string.
RECURSIVE Base64Decode(_)
Base64Decode(s) ==
    IF Len(s) < 4 THEN <<>>
    ELSE LET v(i) == IF CharAt(s, i) = "=" THEN 0 ELSE Base64Index(CharAt(s, i))
             pad == IF CharAt(s, 3) = "=" THEN 2
                    ELSE IF CharAt(s, 4) = "=" THEN 1 ELSE 0
             l == v(1) * 262144 + v(2) * 4096 + v(3) * 64 + v(4)
             group == <<l \div 65536, (l \div 256) % 256, l % 256>>
         IN  SubSeq(group, 1, 3 - pad) \o Base64Decode(DropChars(s, 4))

\* The three substitutions reversed.
FromUrlSafe(s) == replace(replace(replace(s, "-", "+"), "_", "="), "~", "/")

\* The encoding of every sample input.
EncodedSamples ==
    [b \in SignatureSamples |-> encode_signature_url_safe(b)]

\* C7: reversing the substitutions and base64-decoding the encoded string
\* gives back the input bytes, and no other input has the same encoding.
C7_RoundTrip ==
    pc = "encoded" =>
        /\ Base64Decode(FromUrlSafe(Val(result))) = Val(signed_policy)
        /\ \A other \in SignatureSamples :
               EncodedSamples[other] = Val(result) => other = Val(signed_policy)

C7_Witness ==
    /\ pc = "encoded"
    /\ signed_policy = Some(<<255, 251>>)
    /\ result = Some("~~s_")
    /\ Base64Decode("//s=") = <<255, 251>>

(***************************************************************************)
(* Properties of create_canned_policy_signature.                           *)
(***************************************************************************)
Last(seq) == seq[Len(seq)]

\* The read stage returned the key bytes.
ReadSucceeded == key # None

\* The first stage that fails, given what the collaborators answer in this
\* call: the read as it went, and the verdict of each OpenSSL call on the
\* key bytes, whether or not the call was reached.  None when none fails.
FirstFailure ==
    IF ~ReadSucceeded THEN Some("read_rsa_private_key")
    ELSE IF ~Val(key).parses THEN Some("Rsa::private_key_from_pem")
    ELSE IF ~Val(key).converts THEN Some("PKey::from_rsa")
    ELSE IF ~Val(key).signer_inits THEN Some("Signer::new")
    ELSE IF ~Val(key).updates THEN Some("Signer::update")
    ELSE IF ~Val(key).signs THEN Some("Signer::sign_to_vec")
    ELSE None

\* The error kind of each stage that can fail.
KindOf(stage) ==
    CASE stage = "read_rsa_private_key" -> "IOError"
      [] stage = "Rsa::private_key_from_pem" -> "PrivateKeyParseError"
      [] stage = "PKey::from_rsa" -> "PrivateKeyConvertError"
      [] stage = "Signer::new" -> "Unknown"
      [] stage = "Signer::update" -> "Unknown"
      [] stage = "Signer::sign_to_vec" -> "CouldNotSign"

StagesRun == {trace[i].stage : i \in 1..Len(trace)}

\* The call returned an error.
Failed == pc = "done" /\ ~Val(result).ok

\* The call returned a signature.
Succeeded == pc = "done" /\ Val(result).ok

\* C3: the stages run in the order read, parse, convert, (policy,) sign,
\* encode; whatever each stage would answer, the first that fails is the
\* last one executed, the call returns that stage's error kind, and a
\* signature string is returned exactly when no stage fails.
C3_FirstFailureEndsCall ==
    /\ Len(trace) <= Len(StageOrder)
    /\ \A i \in 1..Len(trace) : trace[i].stage = StageOrder[i]
    /\ \A i \in 1..(Len(trace) - 1) : trace[i].answer = "ok"
    /\ (pc # "done" => result = None)
    /\ (pc = "done" =>
           IF FirstFailure = None
           THEN /\ Val(result).ok
                /\ DOMAIN Val(result) = {"ok", "value"}
                /\ Len(trace) = Len(StageOrder)
                /\ Last(trace).answer = "ok"
           ELSE /\ ~Val(result).ok
                /\ DOMAIN Val(result) = {"ok", "error"}
                /\ Last(trace).stage = Val(FirstFailure)
                /\ Last(trace).answer # "ok"
                /\ Val(result).error.kind = KindOf(Val(FirstFailure)))

\* A key that parses, fails to convert and would fail to sign as well: the
\* call ends at the conversion.
C3_Witness ==
    /\ pc = "done"
    /\ ReadSucceeded
    /\ Val(key).parses /\ ~Val(key).converts /\ ~Val(key).signs
    /\ Val(result) = Err(PrivateKeyConvertError)

\* C4: when the read fails the call returns IOError carrying the cause
\* fs::read reported, no signature exists, and parsing, signing and
\* encoding were not run, whatever the resource and the expiry.
C4_ReadFailure ==
    (pc = "done" /\ ~ReadSucceeded) =>
        /\ Val(result) = Err(IOError(trace[1].answer))
        /\ trace[1].answer \in IoCauses
        /\ StagesRun = {"read_rsa_private_key"}
        /\ private_key = None
        /\ signer = None
        /\ signed_policy = None

C4_Witness ==
    /\ pc = "done"
    /\ ~ReadSucceeded
    /\ private_key_location = Some("missing.pem")
    /\ Val(result) = Err(IOError("No such file or directory (os error 2)"))

\* C5: when the key bytes are read but the parser rejects them, the call
\* returns PrivateKeyParseError and neither conversion nor signing is run;
\* when they parse but the conversion fails, the call returns
\* PrivateKeyConvertError and no signing is run.
C5_KeyFailures ==
    (pc = "done" /\ ReadSucceeded) =>
        /\ ~Val(key).parses =>
               /\ Val(result) = Err(PrivateKeyParseError)
               /\ StagesRun = {"read_rsa_private_key", "Rsa::private_key_from_pem"}
               /\ private_key = None
               /\ signer = None
               /\ signed_policy = None
        /\ (Val(key).parses /\ ~Val(key).converts) =>
               /\ Val(result) = Err(PrivateKeyConvertError)
               /\ StagesRun = {"read_rsa_private_key", "Rsa::private_key_from_pem",
                               "PKey::from_rsa"}
               /\ Val(private_key).type = "Rsa<Private>"
               /\ signer = None
               /\ signed_policy = None

C5_Witness ==
    /\ pc = "done"
    /\ ReadSucceeded
    /\ Val(key).parses /\ ~Val(key).converts
    /\ Val(key).signer_inits /\ Val(key).updates /\ Val(key).signs
    /\ Val(result).error.kind = "PrivateKeyConvertError"

ReachedSigner == "generate_canned_policy" \in StagesRun

\* C9: in sign_canned_policy the signer is constructed, fed, finalized in
\* that order; a failed construction returns Unknown with nothing fed, a
\* failed feed returns Unknown with nothing finalized, a failed
\* finalization returns CouldNotSign, and signature bytes exist only when
\* all three succeeded.
C9_SignerSteps ==
    /\ ("Signer::update" \in StagesRun => signer # None)
    /\ ("Signer::sign_to_vec" \in StagesRun =>
            signer # None /\ Val(signer).data = Val(policy))
    /\ (signed_policy # None =>
            /\ Ran("Signer::new", "ok") \in {trace[i] : i \in 1..Len(trace)}
            /\ Ran("Signer::update", "ok") \in {trace[i] : i \in 1..Len(trace)}
            /\ Ran("Signer::sign_to_vec", "ok") \in {trace[i] : i \in 1..Len(trace)})
    /\ ((pc = "done" /\ ReachedSigner) =>
           LET k == Val(key)
           IN  /\ ~k.signer_inits =>
                      /\ Val(result) = Err(Unknown)
                      /\ Last(trace).stage = "Signer::new"
                      /\ signer = None
                      /\ signed_policy = None
               /\ (k.signer_inits /\ ~k.updates) =>
                      /\ Val(result) = Err(Unknown)
                      /\ Last(trace).stage = "Signer::update"
                      /\ Val(signer).data = ""
                      /\ signed_policy = None
               /\ (k.signer_inits /\ k.updates /\ ~k.signs) =>
                      /\ Val(result) = Err(CouldNotSign)
                      /\ Last(trace).stage = "Signer::sign_to_vec"
                      /\ signed_policy = None
               /\ (k.signer_inits /\ k.updates /\ k.signs) =>
                      signed_policy # None
               /\ (Failed /\ Val(result).error.kind = "CouldNotSign" =>
                      Last(trace).stage = "Signer::sign_to_vec")
               /\ (Failed /\ Val(result).error.kind = "Unknown" =>
                      Last(trace).stage \in {"Signer::new", "Signer::update"}))

C9_Witness ==
    /\ pc = "done"
    /\ ReachedSigner
    /\ Val(key).signer_inits /\ Val(key).updates /\ ~Val(key).signs
    /\ Val(result) = Err(CouldNotSign)

ErrorKinds ==
    {"IOError", "PrivateKeyParseError", "PrivateKeyConvertError", "Unknown",
     "CouldNotSign"}

\* The text a stage puts before the cause in its log record.
LogPrefix(stage) ==
    CASE stage = "read_rsa_private_key" -> "Could not read private key from file due to "
      [] stage = "Rsa::private_key_from_pem" -> "Could not parse RSA private key due to "
      [] stage = "PKey::from_rsa" -> "Could not convert RSA private key due to "
      [] stage = "Signer::new" -> "Could not create signer due to "
      [] stage = "Signer::update" -> "Could not update signer due to "
      [] stage = "Signer::sign_to_vec" -> "Could not sign due to "

\* C10: a failing call has written exactly one log record, at error level,
\* holding the failing stage's message and the cause that stage got, and
\* returns one of the five kinds; the returned error carries the cause
\* exactly when it is IOError; until a stage fails, and in a call that
\* succeeds, nothing is logged.
C10_OneLogPerFailure ==
    /\ (pc # "done" => log = <<>>)
    /\ (Succeeded => log = <<>>)
    /\ (Failed =>
           /\ Len(log) = 1
           /\ log[1].level = "error"
           /\ log[1].message =
                  LogPrefix(Last(trace).stage) \o Last(trace).answer
           /\ Last(trace).answer # "ok"
           /\ Val(result).error.kind \in ErrorKinds
           /\ ("cause" \in DOMAIN Val(result).error
                   <=> Val(result).error.kind = "IOError")
           /\ (Val(result).error.kind = "IOError" =>
                   Val(result).error.cause = Last(trace).answer))

C10_Witness ==
    /\ Failed
    /\ Val(result) = Err(PrivateKeyParseError)
    /\ log = <<[level |-> "error",
                message |-> "Could not parse RSA private key due to ErrorStack(PEM_read_bio_RSAPrivateKey)"]>>

====
